---- MODULE Spec2Model ----
(***************************************************************************)
(* GameBase (src/comp-game-base-ts.ts): a component that resolves resource *)
(* urls against a host and a directory, loads audio clips, images, sprite  *)
(* sheets and skeletons through the engine's loader and plays clips        *)
(* through the engine's audio engine.                                      *)
(*                                                                         *)
(* A string is a sequence of characters ("r", "/", ...); a few fixed       *)
(* pieces of text (an error message, the field prefix, the default         *)
(* extension) are one element each.  The loader, the audio engine, the     *)
(* collision manager and the scene nodes belong to the engine: the model   *)
(* keeps of them what the component reads and writes.                      *)
(***************************************************************************)
EXTENDS Integers, Sequences, FiniteSets, TLC

\* ------------------------------------------------------------------ bounds
\* audio and skeleton requests the component may have issued in one run
MaxCalls == 2
\* image and sprite-sheet requests the component may have issued in one run
MaxLoads == 2
\* requests and promises of a run that follows the configuration or the
\* collision manager
MaxSetupCalls == 1
\* clips handed to the audio engine in one run
MaxPlays == 1

\* ----------------------------------------------------------------- strings
Empty == <<>>
Undefined == <<"undefined">>
Slash == <<"/">>
DefaultExt == <<".mp3">>
AudioPrefix == <<"_$audio">>
ErrHost == <<"Please set resource host property of GameBase!">>
ErrDir == <<"Please set directory first!">>
ErrLoad == <<"load failed">>
NotFoundSuffix == <<" not found!">>

Hosts == {Empty, <<"h">>}
HostArgs == Hosts \cup {<<"k">>}
Dirs == {Empty, <<"d">>}
DirArgs == {Undefined, Empty, <<"e">>}
Red == <<"r">>
RedCap == <<"R">>
Green == <<"g">>
RedFile == <<"r", ".mp3">>
GreenFile == <<"g", ".mp3">>
Files == {RedFile, GreenFile}
Keys == {Empty, Red, RedCap, Green}
Paths == {<<"p">>, <<"q">>}
Nodes == {"n1"}
NoProps == "none"
PropValues == {NoProps, "props"}

ToUpper(c) ==
  CASE c = "r" -> "R"
    [] c = "g" -> "G"
    [] OTHER -> c

\* strings.capitalize: the first character in upper case, the rest as it is
capitalize(s) ==
  IF s = Empty THEN s ELSE <<ToUpper(Head(s))>> \o Tail(s)

\* ------------------------------------------------------------------- state
VARIABLES
  collisionSystem,  \* property: the collision system is wanted
  debugCollision,   \* property: the collision debug draw is wanted
  resourceHost,     \* property: the resource host
  directory,        \* property: the resource directory
  envRef,           \* this._env
  query,            \* this._query
  audio,            \* the _$audio<Key> fields: field name -> clip
  manager,          \* the engine's collision manager
  calls,            \* the loader requests and promises issued, in order
  played,           \* the clips given to cc.audioEngine.play; id = index - 1
  finishCb,         \* play id -> the promise its finish callback resolves
  nodes,            \* the scene nodes: their Sprite and Gif components
  ret               \* the outcome of the last call of a method

vars == <<collisionSystem, debugCollision, resourceHost, directory, envRef,
          query, audio, manager, calls, played, finishCb, nodes, ret>>

fields == <<collisionSystem, debugCollision, resourceHost, directory, envRef,
            query, audio>>

engine == <<manager, calls, played, finishCb, nodes>>

NoManager == [present |-> FALSE, enabled |-> FALSE, enabledDebugDraw |-> FALSE]

\* the collision manager the engine provides, if it provides one
Managers ==
  {NoManager} \cup
  {[present |-> TRUE, enabled |-> b, enabledDebugDraw |-> b] : b \in BOOLEAN}

NoAsset == [from |-> Empty]

\* what the loader delivers for a url
AssetOf(url) == [from |-> url]

\* a node that carries n Sprite and n Gif components
NodeWith(n) ==
  [sprites |-> n, spriteFrame |-> NoAsset, props |-> NoProps,
   gifs |-> n, atlas |-> NoAsset, gifProps |-> NoProps, gifInits |-> 0]

\* the outcome of a call: out is "value" (returned val or id), "throw" (threw
\* val), "rejected" (returned a promise already rejected with val) or
\* "promise" (returned the pending promise calls[call])
Ret(op, out, val, id, call) ==
  [op |-> op, out |-> out, val |-> val, id |-> id, call |-> call]

Init ==
  /\ collisionSystem \in BOOLEAN
  /\ debugCollision \in BOOLEAN
  /\ resourceHost \in Hosts
  /\ directory \in Dirs
  /\ envRef = "unset"
  /\ query = "unset"
  /\ audio = [f \in {} |-> NoAsset]
  /\ manager \in Managers
  /\ calls = <<>>
  /\ played = <<>>
  /\ finishCb = [i \in {} |-> 0]
  /\ nodes \in [Nodes -> {NodeWith(0), NodeWith(1)}]
  /\ ret = Ret("new", "value", Empty, 0, 0)

\* --------------------------------------------------------------- lifecycle
OnLoadManagerOneFlag ==
  IF manager.present
    THEN [manager EXCEPT !.enabled = collisionSystem,
                         !.enabledDebugDraw = collisionSystem]
    ELSE manager

OnLoadManager ==
  IF manager.present
    THEN [manager EXCEPT !.enabled = collisionSystem,
                         !.enabledDebugDraw = debugCollision]
    ELSE manager

OnLoad ==
  /\ envRef' = "env"
  /\ query' = "parsed"
  /\ manager' = OnLoadManager
  /\ ret' = Ret("onLoad", "value", Empty, 0, 0)
  /\ UNCHANGED <<collisionSystem, debugCollision, resourceHost, directory,
                 audio, calls, played, finishCb, nodes>>

LogLevels == {"$debug", "$log", "$warn", "$error", "$group", "$groupCollapsed"}

Log(level) ==
  /\ ret' = Ret(level, "value", Empty, 0, 0)
  /\ UNCHANGED <<fields, engine>>

\* ----------------------------------------------------------- configuration
SetResourceHost(host) ==
  /\ resourceHost' = host
  /\ ret' = Ret("setResourceHost", "value", Empty, 0, 0)
  /\ UNCHANGED <<collisionSystem, debugCollision, directory, envRef, query,
                 audio, engine>>

SetDirectory(dir) ==
  /\ directory' = dir
  /\ ret' = Ret("setDirectory", "value", Empty, 0, 0)
  /\ UNCHANGED <<collisionSystem, debugCollision, resourceHost, envRef, query,
                 audio, engine>>

checkDirThenHost ==
  IF directory = Empty THEN ErrDir
  ELSE IF resourceHost = Empty THEN ErrHost
  ELSE Empty

\* checkHostAndDir: the error it throws, Empty when it throws none
checkHostAndDir ==
  IF resourceHost = Empty THEN ErrHost
  ELSE IF directory = Empty THEN ErrDir
  ELSE Empty

UrlTextNoDir(filename, dir) == resourceHost \o Slash \o filename

\* the template string of urlOf
UrlText(filename, dir) == resourceHost \o Slash \o dir \o Slash \o filename

\* urlOf's dir parameter: this.directory when the argument is left out
DirOr(dirArg) == IF dirArg = Undefined THEN directory ELSE dirArg

urlOf(filename, dirArg) == UrlText(filename, DirOr(dirArg))

UrlOfCall(filename, dirArg) ==
  /\ ret' = IF checkHostAndDir # Empty
              THEN Ret("urlOf", "throw",
                       checkHostAndDir, 0, 0)
              ELSE Ret("urlOf", "value",
                       urlOf(filename, dirArg), 0, 0)
  /\ UNCHANGED <<fields, engine>>

\* ------------------------------------------------------------------- audio
\* a loader request and the promise the method returned for it; load is
\* "none" for a promise that waits for no request
Call(op, urls, keys, name, node, props, load) ==
  [op |-> op, urls |-> urls, keys |-> keys, name |-> name, node |-> node,
   props |-> props, load |-> load, promise |-> "pending", err |-> Empty]

Put(f, k, v) == [x \in DOMAIN f \cup {k} |-> IF x = k THEN v ELSE f[x]]

\* the requests given to the loader so far
Loads == {c \in DOMAIN calls : calls[c].load # "none"}

Drop(f, k) == [x \in DOMAIN f \ {k} |-> f[x]]

\* the field loadAudio and loadAudios store a clip in
AudioField(key) == AudioPrefix \o capitalize(key)

PlayAudioFieldAsGiven(audioName) == AudioPrefix \o audioName

\* the field playAudio reads
PlayAudioField(audioName) == AudioPrefix \o capitalize(capitalize(audioName))

\* what `this[field]` gives: NoAsset stands for undefined
FieldValue(store, field) ==
  IF field \in DOMAIN store THEN store[field] ELSE NoAsset

\* the then-callback of loadAudio
StoreClip(store, key, clip) ==
  IF key # Empty THEN Put(store, AudioField(key), clip) ELSE store

\* the forEach of loadAudios: clips[i] goes to the field of keys[i], in order
RECURSIVE StoreClips(_, _, _)
StoreClips(store, keys, clips) ==
  IF keys = <<>> THEN store
  ELSE StoreClips(Put(store, AudioField(Head(keys)), Head(clips)),
                  Tail(keys), Tail(clips))

LoadAudio(filename, key) ==
  /\ checkHostAndDir = Empty => Cardinality(Loads) < MaxCalls
  /\ IF checkHostAndDir # Empty
       THEN /\ ret' = Ret("loadAudio", "throw",
                          checkHostAndDir, 0, 0)
            /\ UNCHANGED calls
       ELSE /\ calls' = Append(calls,
                 Call("loadAudio", <<urlOf(filename, Undefined)>>, <<key>>,
                      Empty, "", NoProps, "pending"))
            /\ ret' = Ret("loadAudio", "promise", Empty, 0,
                          Len(calls) + 1)
  /\ UNCHANGED <<fields, manager, played, finishCb, nodes>>

\* loadAudios: filenames is the array, or the values of the object whose keys
\* are `keys` (isObject)
LoadAudios(isObject, keys, filenames) ==
  /\ checkHostAndDir = Empty => Cardinality(Loads) < MaxCalls
  /\ IF checkHostAndDir # Empty
       THEN /\ ret' = Ret("loadAudios", "throw",
                          checkHostAndDir, 0, 0)
            /\ UNCHANGED calls
       ELSE /\ calls' = Append(calls,
                 Call(IF isObject THEN "loadAudiosObject" ELSE "loadAudiosArray",
                      [i \in 1..Len(filenames) |-> urlOf(filenames[i], Undefined)],
                      keys, Empty, "", NoProps, "pending"))
            /\ ret' = Ret("loadAudios",
                          "promise", Empty, 0, Len(calls) + 1)
  /\ UNCHANGED <<fields, manager, played, finishCb, nodes>>

PlayAudio(audioName) ==
  LET url == FieldValue(audio, PlayAudioField(audioName)) IN
  /\ url # NoAsset => Len(played) < MaxPlays
  /\ IF url = NoAsset
       THEN /\ ret' = Ret("playAudio", "value", Empty, -1, 0)
            /\ UNCHANGED played
       ELSE /\ played' = Append(played, url)
            /\ ret' = Ret("playAudio", "value", Empty,
                          Len(played), 0)
  /\ UNCHANGED <<fields, manager, calls, finishCb, nodes>>

KeyIgnored(keyArg, audioName) == audioName

\* the default values of playAudioPromise's key and ext parameters
KeyOr(keyArg, audioName) == IF keyArg = Undefined THEN audioName ELSE keyArg

ExtOr(extArg) == IF extArg = Undefined THEN DefaultExt ELSE extArg

NotFound(audioName) == audioName \o NotFoundSuffix

PlayAudioPromise(audioName, tryLoad, keyArg, extArg) ==
  LET key == KeyOr(keyArg, audioName)
      url == FieldValue(audio, PlayAudioField(key))
      new == Len(calls) + 1
  IN
  /\ url # NoAsset => Len(played) < MaxPlays
  /\ (url = NoAsset /\ tryLoad /\ checkHostAndDir = Empty)
       => Cardinality(Loads) < MaxCalls
  /\ IF url # NoAsset
       THEN /\ played' = Append(played, url)
            /\ calls' = Append(calls,
                 Call("finish", <<>>, <<>>, audioName, "", NoProps, "none"))
            /\ finishCb' = Put(finishCb, Len(played), new)
            /\ ret' = Ret("playAudioPromise", "promise", Empty, 0, new)
       ELSE IF ~tryLoad
       THEN /\ ret' = Ret("playAudioPromise", "rejected",
                          NotFound(audioName), 0, 0)
            /\ UNCHANGED <<played, calls, finishCb>>
       ELSE IF checkHostAndDir # Empty
       THEN /\ ret' = Ret("playAudioPromise", "throw", checkHostAndDir,
                          0, 0)
            /\ UNCHANGED <<played, calls, finishCb>>
       ELSE /\ calls' = Append(calls,
                 Call("tryLoad", <<urlOf(audioName \o ExtOr(extArg), Undefined)>>,
                      <<key>>, audioName, "", NoProps, "pending"))
            /\ ret' = Ret("playAudioPromise", "promise", Empty, 0, new)
            /\ UNCHANGED <<played, finishCb>>
  /\ UNCHANGED <<fields, manager, nodes>>

\* the loader delivers the clip of loadAudio: the then-callback stores it
AudioLoaded(c) ==
  /\ calls[c].op = "loadAudio"
  /\ calls[c].load = "pending"
  /\ audio' = StoreClip(audio, calls[c].keys[1], AssetOf(calls[c].urls[1]))
  /\ calls' = [calls EXCEPT ![c].load = "ok", ![c].promise = "resolved"]
  /\ UNCHANGED <<collisionSystem, debugCollision, resourceHost, directory,
                 envRef, query, manager, played, finishCb, nodes, ret>>

\* the loader delivers the clips of loadAudios
AudiosLoaded(c) ==
  /\ calls[c].op \in {"loadAudiosArray", "loadAudiosObject"}
  /\ calls[c].load = "pending"
  /\ audio' = IF calls[c].op = "loadAudiosObject"
                THEN StoreClips(audio, calls[c].keys,
                       [i \in 1..Len(calls[c].urls) |-> AssetOf(calls[c].urls[i])])
                ELSE audio
  /\ calls' = [calls EXCEPT ![c].load = "ok", ![c].promise = "resolved"]
  /\ UNCHANGED <<collisionSystem, debugCollision, resourceHost, directory,
                 envRef, query, manager, played, finishCb, nodes, ret>>

\* the loader delivers the clip playAudioPromise asked for: loadAudio's
\* callback stores it, then playAudioPromise(audioName) runs
TryLoaded(c) ==
  LET stored == StoreClip(audio, calls[c].keys[1], AssetOf(calls[c].urls[1]))
      url == FieldValue(stored, PlayAudioField(calls[c].name))
  IN
  /\ calls[c].op = "tryLoad"
  /\ calls[c].load = "pending"
  /\ url # NoAsset => Len(played) < MaxPlays
  /\ audio' = stored
  /\ IF url # NoAsset
       THEN /\ played' = Append(played, url)
            /\ finishCb' = Put(finishCb, Len(played), c)
            /\ calls' = [calls EXCEPT ![c].load = "ok"]
       ELSE /\ calls' = [calls EXCEPT ![c].load = "ok",
                                      ![c].promise = "rejected",
                                      ![c].err = NotFound(calls[c].name)]
            /\ UNCHANGED <<played, finishCb>>
  /\ UNCHANGED <<collisionSystem, debugCollision, resourceHost, directory,
                 envRef, query, manager, nodes, ret>>

\* the loader fails a request: the promise of the call rejects
LoadFailed(c) ==
  /\ calls[c].load = "pending"
  /\ calls' = [calls EXCEPT ![c].load = "fail", ![c].promise = "rejected",
                            ![c].err = ErrLoad]
  /\ UNCHANGED <<fields, manager, played, finishCb, nodes, ret>>

\* the audio engine calls the finish callback set for a play
AudioFinished(id) ==
  /\ id \in DOMAIN finishCb
  /\ calls' = [calls EXCEPT ![finishCb[id]].promise = "resolved"]
  /\ finishCb' = Drop(finishCb, id)
  /\ UNCHANGED <<fields, manager, played, nodes, ret>>

\* ------------------------------------------------------------------ nodes
AlwaysAddComponent(count) == count + 1

ThrownToCaller == "throw"

\* urlOf throws inside the executor of `new Promise`: the promise rejects
ThrownInExecutor == "rejected"

\* node.getComponent(cc.Sprite), and node.addComponent(cc.Sprite) when there
\* is none: the number of Sprite components the node carries afterwards
EnsureComponent(count) == IF count = 0 THEN 1 ELSE count

\* the for-in of loadImage: the given properties are set on the node
AssignProps(old, initProps) == IF initProps # NoProps THEN initProps ELSE old

LoadImage(path, node, initProps) ==
  /\ checkHostAndDir = Empty => Cardinality(Loads) < MaxLoads
  /\ IF checkHostAndDir # Empty
       THEN /\ ret' = Ret("loadImage", ThrownInExecutor, checkHostAndDir, 0, 0)
            /\ UNCHANGED calls
       ELSE /\ calls' = Append(calls,
                 Call("loadImage", <<urlOf(path, Undefined)>>, <<>>, Empty,
                      node, initProps, "pending"))
            /\ ret' = Ret("loadImage", "promise", Empty, 0, Len(calls) + 1)
  /\ UNCHANGED <<fields, manager, played, finishCb, nodes>>

\* the loader delivers the texture of loadImage
ImageLoaded(c) ==
  /\ calls[c].op = "loadImage"
  /\ calls[c].load = "pending"
  /\ nodes' = [nodes EXCEPT ![calls[c].node] =
                 [@ EXCEPT !.sprites = EnsureComponent(@),
                           !.spriteFrame = AssetOf(calls[c].urls[1]),
                           !.props = AssignProps(@, calls[c].props)]]
  /\ calls' = [calls EXCEPT ![c].load = "ok", ![c].promise = "resolved"]
  /\ UNCHANGED <<fields, manager, played, finishCb, ret>>

LoadGif(pathWithoutExt, node, gifProps) ==
  /\ checkHostAndDir = Empty => Cardinality(Loads) < MaxLoads
  /\ IF checkHostAndDir # Empty
       THEN /\ ret' = Ret("loadGif", ThrownInExecutor, checkHostAndDir, 0, 0)
            /\ UNCHANGED calls
       ELSE /\ calls' = Append(calls,
                 Call("loadGif", <<urlOf(pathWithoutExt, Undefined)>>, <<>>,
                      Empty, node, gifProps, "pending"))
            /\ ret' = Ret("loadGif", "promise", Empty, 0, Len(calls) + 1)
  /\ UNCHANGED <<fields, manager, played, finishCb, nodes>>

\* the loader delivers the atlas of loadGif
GifLoaded(c) ==
  /\ calls[c].op = "loadGif"
  /\ calls[c].load = "pending"
  /\ nodes' = [nodes EXCEPT ![calls[c].node] =
                 [@ EXCEPT !.gifs = EnsureComponent(@),
                           !.atlas = AssetOf(calls[c].urls[1]),
                           !.gifProps = AssignProps(@, calls[c].props),
                           !.gifInits = IF calls[c].props # NoProps
                                          THEN @ + 1 ELSE @]]
  /\ calls' = [calls EXCEPT ![c].load = "ok", ![c].promise = "resolved"]
  /\ UNCHANGED <<fields, manager, played, finishCb, ret>>

SkeSuffix == <<"_ske.json">>
TexJsonSuffix == <<"_tex.json">>
TexSuffix == <<"_tex.png">>

\* loadDragonBones: the three urls, then the engine's loader on the node
LoadDragonBones(name, node) ==
  /\ checkHostAndDir = Empty => Cardinality(Loads) < MaxCalls
  /\ IF checkHostAndDir # Empty
       THEN /\ ret' = Ret("loadDragonBones", "throw", checkHostAndDir, 0, 0)
            /\ UNCHANGED calls
       ELSE /\ calls' = Append(calls,
                 Call("loadDragonBones",
                      <<urlOf(name \o SkeSuffix, Undefined),
                        urlOf(name \o TexJsonSuffix, Undefined),
                        urlOf(name \o TexSuffix, Undefined)>>,
                      <<>>, name, node, NoProps, "pending"))
            /\ ret' = Ret("loadDragonBones", "promise", Empty, 0,
                          Len(calls) + 1)
  /\ UNCHANGED <<fields, manager, played, finishCb, nodes>>

\* the engine's loader has built the skeleton (on the node: the engine's own)
DragonBonesLoaded(c) ==
  /\ calls[c].op = "loadDragonBones"
  /\ calls[c].load = "pending"
  /\ calls' = [calls EXCEPT ![c].load = "ok", ![c].promise = "resolved"]
  /\ UNCHANGED <<fields, manager, played, finishCb, nodes, ret>>

\* ---------------------------------------------------------- specifications
\* the component before onLoad, on an engine without collision manager
InitPlain ==
  /\ Init
  /\ ~collisionSystem
  /\ ~debugCollision
  /\ manager = NoManager

\* the component as the engine built it, its host and directory given as
\* properties, on nodes without components
InitLifecycle ==
  /\ Init
  /\ resourceHost # Empty
  /\ directory # Empty
  /\ nodes = [n \in Nodes |-> NodeWith(0)]

\* the component as constructed: no host, no directory
InitUnset ==
  /\ InitPlain
  /\ resourceHost = Empty
  /\ directory = Empty
  /\ nodes = [n \in Nodes |-> NodeWith(0)]

\* the arguments the methods are called with
LoadAudioArgs == {<<RedFile, Red>>, <<GreenFile, RedCap>>, <<GreenFile, Empty>>}

ArrayArgs == {<<RedFile>>, <<RedFile, GreenFile>>}

\* an object {key: filename, ...} as its keys and its values, in key order
ObjectArgs ==
  {<<<<Red, RedCap>>, <<RedFile, GreenFile>>>>,
   <<<<Red, Green>>, <<RedFile, GreenFile>>>>,
   <<<<Empty>>, <<GreenFile>>>>}

PlayNames == {Empty, Red, Green, RedFile}

\* audioName, tryLoad, key, ext
PromiseArgs ==
  {<<Red, TRUE, Undefined, Undefined>>,
   <<Red, TRUE, RedCap, <<".ogg">>>>,
   <<Red, TRUE, Green, Undefined>>,
   <<Green, TRUE, Empty, Undefined>>,
   <<Red, FALSE, Undefined, Undefined>>,
   <<Red, FALSE, Green, Undefined>>}

\* the configuration and lifecycle runs keep few requests: room for one more
Room == Len(calls) < MaxSetupCalls

NextConfig ==
  \/ \E host \in HostArgs : SetResourceHost(host)
  \/ \E dir \in Dirs : SetDirectory(dir)
  \/ \E filename \in Files, dirArg \in DirArgs : UrlOfCall(filename, dirArg)
  \/ Room /\ LoadAudio(RedFile, Red)
  \/ Room /\ LoadAudios(FALSE, <<>>, <<RedFile, GreenFile>>)
  \/ Room /\ LoadAudios(TRUE, <<Red>>, <<RedFile>>)
  \/ \E node \in Nodes : Room /\ LoadDragonBones(Red, node)
  \/ \E c \in DOMAIN calls : AudioLoaded(c)
  \/ \E c \in DOMAIN calls : AudiosLoaded(c)
  \/ \E c \in DOMAIN calls : DragonBonesLoaded(c)
  \/ \E c \in DOMAIN calls : LoadFailed(c)

NextLifecycle ==
  \/ OnLoad
  \/ \E level \in LogLevels : Log(level)
  \/ SetResourceHost(<<"h">>)
  \/ SetDirectory(<<"d">>)
  \/ UrlOfCall(RedFile, Undefined)
  \/ Room /\ LoadAudio(RedFile, Red)
  \/ Room /\ LoadAudios(FALSE, <<>>, <<RedFile>>)
  \/ Room /\ LoadAudios(TRUE, <<Red>>, <<RedFile>>)
  \/ Room /\ LoadDragonBones(Red, "n1")
  \/ PlayAudio(Red)
  \/ Room /\ PlayAudioPromise(Red, TRUE, Undefined, Undefined)
  \/ Room /\ LoadImage(<<"p">>, "n1", NoProps)
  \/ Room /\ LoadGif(<<"p">>, "n1", "props")
  \/ \E c \in DOMAIN calls : AudioLoaded(c)
  \/ \E c \in DOMAIN calls : AudiosLoaded(c)
  \/ \E c \in DOMAIN calls : TryLoaded(c)
  \/ \E c \in DOMAIN calls : DragonBonesLoaded(c)
  \/ \E c \in DOMAIN calls : ImageLoaded(c)
  \/ \E c \in DOMAIN calls : GifLoaded(c)
  \/ \E c \in DOMAIN calls : LoadFailed(c)
  \/ \E id \in DOMAIN finishCb : AudioFinished(id)

NextAudio ==
  \/ \E a \in LoadAudioArgs : LoadAudio(a[1], a[2])
  \/ \E filenames \in ArrayArgs : LoadAudios(FALSE, <<>>, filenames)
  \/ \E o \in ObjectArgs : LoadAudios(TRUE, o[1], o[2])
  \/ \E audioName \in PlayNames : PlayAudio(audioName)
  \/ \E c \in DOMAIN calls : AudioLoaded(c)
  \/ \E c \in DOMAIN calls : AudiosLoaded(c)
  \/ \E c \in DOMAIN calls : LoadFailed(c)

NextPromise ==
  \/ LoadAudio(RedFile, Red)
  \/ \E audioName \in {Red, Green} : PlayAudio(audioName)
  \/ \E a \in PromiseArgs : PlayAudioPromise(a[1], a[2], a[3], a[4])
  \/ \E c \in DOMAIN calls : AudioLoaded(c)
  \/ \E c \in DOMAIN calls : TryLoaded(c)
  \/ \E c \in DOMAIN calls : LoadFailed(c)
  \/ \E id \in DOMAIN finishCb : AudioFinished(id)

NextNode ==
  \/ \E host \in Hosts : SetResourceHost(host)
  \/ \E dir \in Dirs : SetDirectory(dir)
  \/ \E path \in Paths, node \in Nodes, initProps \in PropValues :
       LoadImage(path, node, initProps)
  \/ \E path \in Paths, node \in Nodes, gifProps \in PropValues :
       LoadGif(path, node, gifProps)
  \/ \E c \in DOMAIN calls : ImageLoaded(c)
  \/ \E c \in DOMAIN calls : GifLoaded(c)
  \/ \E c \in DOMAIN calls : LoadFailed(c)

SpecConfig == InitUnset /\ [][NextConfig]_vars

SpecLifecycle == InitLifecycle /\ [][NextLifecycle]_vars

SpecAudio == InitPlain /\ [][NextAudio]_vars

SpecPromise == InitPlain /\ [][NextPromise]_vars

SpecNode == InitPlain /\ [][NextNode]_vars

\* ------------------------------------------------------------------ claims
SetHostStep == \E host \in HostArgs : SetResourceHost(host)

SetDirStep == \E dir \in Dirs : SetDirectory(dir)

\* C1: the host and the directory are what setResourceHost and setDirectory
\* were last given; with both non-empty, urlOf(f) returns host "/" directory
\* "/" f and changes neither
C1_UrlOfJoinsHostDirFile ==
  [][/\ \A host \in HostArgs : SetResourceHost(host) =>
          resourceHost' = host /\ directory' = directory
     /\ \A dir \in Dirs : SetDirectory(dir) =>
          directory' = dir /\ resourceHost' = resourceHost
     /\ (resourceHost' # resourceHost \/ directory' # directory) =>
          SetHostStep \/ SetDirStep
     /\ \A f \in Files :
          (UrlOfCall(f, Undefined) /\ resourceHost # Empty /\ directory # Empty)
            => /\ ret'.out = "value"
               /\ ret'.val = resourceHost \o <<"/">> \o directory \o <<"/">> \o f
               /\ resourceHost' = resourceHost
               /\ directory' = directory]_vars

C1_Witness ==
  /\ ret.op = "urlOf"
  /\ ret.out = "value"
  /\ ret.val = <<"k", "/", "d", "/", "g", ".mp3">>
  /\ resourceHost = <<"k">>
  /\ directory = <<"d">>

\* a call of one of the four methods that check the host and the directory
\* before anything else
CheckedCall ==
  \/ \E f \in Files, dirArg \in DirArgs : UrlOfCall(f, dirArg)
  \/ \E f \in Files, key \in Keys : LoadAudio(f, key)
  \/ \E filenames \in ArrayArgs : LoadAudios(FALSE, <<>>, filenames)
  \/ \E o \in ObjectArgs \cup {<<<<Red>>, <<RedFile>>>>} :
       LoadAudios(TRUE, o[1], o[2])
  \/ \E name \in {Red, Green}, node \in Nodes : LoadDragonBones(name, node)

Throws(err) ==
  /\ ret'.out = "throw"
  /\ ret'.val = err
  /\ UNCHANGED <<fields, engine>>

\* C2: urlOf (with or without a dir argument), loadAudio, loadAudios and
\* loadDragonBones throw the host error when the host is empty, the directory
\* error when only the directory is empty; no request is issued and no field
\* changes
C2_UnsetThrows ==
  [][CheckedCall =>
       /\ resourceHost = Empty => Throws(ErrHost)
       /\ (resourceHost # Empty /\ directory = Empty) => Throws(ErrDir)]_vars

C2_Witness ==
  /\ ret.op = "loadDragonBones"
  /\ ret.out = "throw"
  /\ ret.val = ErrDir
  /\ resourceHost # Empty
  /\ directory = Empty
  /\ calls = <<>>

NodeLoadCall ==
  \/ \E path \in Paths, node \in Nodes, initProps \in PropValues :
       LoadImage(path, node, initProps)
  \/ \E path \in Paths, node \in Nodes, gifProps \in PropValues :
       LoadGif(path, node, gifProps)

\* C3: loadImage and loadGif with the host or the directory unset return a
\* promise rejected with the configuration error; they do not throw, issue no
\* request and leave the node as it is
C3_UnsetRejects ==
  [][(NodeLoadCall /\ (resourceHost = Empty \/ directory = Empty)) =>
       /\ ret'.out = "rejected"
       /\ ret'.val = IF resourceHost = Empty THEN ErrHost ELSE ErrDir
       /\ UNCHANGED <<fields, engine>>]_vars

C3_Witness ==
  /\ ret.op = "loadGif"
  /\ ret.out = "rejected"
  /\ ret.val = ErrDir
  /\ calls = <<>>

\* the urls of a request, as a set
UrlsOf(c) == {calls[c].urls[i] : i \in DOMAIN calls[c].urls}

\* C4: once loadAudios(array) has resolved, playAudio(filename) of a filename
\* of the array returns the audio engine's id, not -1
C4_ArrayThenPlayAudioPlays ==
  [][\A f \in Files :
       (/\ PlayAudio(f)
        /\ \E c \in DOMAIN calls :
             /\ calls[c].op = "loadAudiosArray"
             /\ calls[c].promise = "resolved"
             /\ urlOf(f, Undefined) \in UrlsOf(c))
         => ret'.id # -1]_vars

\* a later key of the object has the same capitalization as keys[i]
Shadowed(keys, i) ==
  \E j \in DOMAIN keys : j > i /\ capitalize(keys[j]) = capitalize(keys[i])

\* the clips change only when a load resolves
StoredOnlyOnSuccess ==
  audio' # audio =>
    \E c \in DOMAIN calls :
      /\ calls[c].load = "pending"
      /\ calls'[c].load = "ok"

\* C5 as stated: when loadAudio(f, k), k non-empty, or loadAudios({k_i: f_i})
\* resolves, playAudio(k), resp. playAudio(k_i) for every i, reads the clip
\* loaded from f, resp. f_i; nothing is stored before or on failure
C5_KeyRoundTripEveryKey ==
  [][/\ \A c \in DOMAIN calls :
          (AudioLoaded(c) /\ calls[c].keys[1] # Empty) =>
            FieldValue(audio', PlayAudioField(calls[c].keys[1]))
              = AssetOf(calls[c].urls[1])
     /\ \A c \in DOMAIN calls :
          (AudiosLoaded(c) /\ calls[c].op = "loadAudiosObject") =>
            \A i \in DOMAIN calls[c].keys :
              FieldValue(audio', PlayAudioField(calls[c].keys[i]))
                = AssetOf(calls[c].urls[i])
     /\ StoredOnlyOnSuccess]_vars

\* C5 as amended: the same, for every key that no later key of the object
\* shadows
C5_KeyRoundTrip ==
  [][/\ \A c \in DOMAIN calls :
          (AudioLoaded(c) /\ calls[c].keys[1] # Empty) =>
            FieldValue(audio', PlayAudioField(calls[c].keys[1]))
              = AssetOf(calls[c].urls[1])
     /\ \A c \in DOMAIN calls :
          (AudiosLoaded(c) /\ calls[c].op = "loadAudiosObject") =>
            \A i \in DOMAIN calls[c].keys :
              ~Shadowed(calls[c].keys, i) =>
                FieldValue(audio', PlayAudioField(calls[c].keys[i]))
                  = AssetOf(calls[c].urls[i])
     /\ StoredOnlyOnSuccess]_vars

C5_Witness ==
  \E c \in DOMAIN calls :
    /\ calls[c].op = "loadAudiosObject"
    /\ calls[c].keys = <<Red, RedCap>>
    /\ calls[c].promise = "resolved"
    /\ FieldValue(audio, PlayAudioField(Red)) = AssetOf(calls[c].urls[2])
    /\ calls[c].urls[1] # calls[c].urls[2]

\* C6: when the load of playAudioPromise(audioName, true, key, ext) succeeds,
\* the clip is stored under key, that clip is played and the promise waits
\* for the finish callback of that play
C6_TryLoadPlaysLoadedClip ==
  [][\A c \in DOMAIN calls :
       TryLoaded(c) =>
         /\ FieldValue(audio', AudioField(calls[c].keys[1]))
              = AssetOf(calls[c].urls[1])
         /\ played' = Append(played, AssetOf(calls[c].urls[1]))
         /\ Len(played) \in DOMAIN finishCb'
         /\ finishCb'[Len(played)] = c
         /\ calls'[c].promise = "pending"]_vars

\* C7: onLoad copies collisionSystem and debugCollision to the collision
\* manager's enabled and enabledDebugDraw when there is a manager, and
\* returns without touching anything of it when there is none; no other step
\* changes the manager
C7_OnLoadSetsCollisionFlags ==
  [][/\ (OnLoad /\ manager.present) =>
          /\ manager'.present
          /\ manager'.enabled = collisionSystem
          /\ manager'.enabledDebugDraw = debugCollision
     /\ (OnLoad /\ ~manager.present) =>
          /\ manager' = manager
          /\ ret'.out = "value"
     /\ manager' # manager => OnLoad]_vars

C7_Witness ==
  /\ envRef = "env"
  /\ manager.present
  /\ manager.enabled
  /\ ~manager.enabledDebugDraw
  /\ collisionSystem
  /\ ~debugCollision

\* a clip is stored under a name
Stored(name) == AudioPrefix \o capitalize(name) \in DOMAIN audio

\* C8: with no clip stored under the name, playAudio returns -1 and gives
\* nothing to the audio engine; playAudioPromise(audioName, false, key)
\* returns a promise rejected with audioName " not found!", issues no
\* request, sets no finish callback and stores nothing
C8_MissingClip ==
  [][/\ \A n \in PlayNames :
          (PlayAudio(n) /\ ~Stored(n)) =>
            /\ ret'.out = "value"
            /\ ret'.id = -1
            /\ UNCHANGED <<fields, engine>>
     /\ \A a \in PromiseArgs :
          (/\ ~a[2]
           /\ PlayAudioPromise(a[1], a[2], a[3], a[4])
           /\ ~Stored(IF a[3] = Undefined THEN a[1] ELSE a[3])) =>
            /\ ret'.out = "rejected"
            /\ ret'.val = a[1] \o <<" not found!">>
            /\ UNCHANGED <<fields, engine>>]_vars

C8_Witness ==
  /\ ret.op = "playAudioPromise"
  /\ ret.out = "rejected"
  /\ ret.val = <<"r", " not found!">>
  /\ Stored(Red)
  /\ ~Stored(Green)

====
